---------------------------- MODULE Spec2Model ----------------------------
(***************************************************************************)
(* A model of the Excel structure analyser: the structural profiler and   *)
(* the text serializer of excel_utils.py, the reply parser/validator of   *)
(* llm_api.py with the pydantic models of models.py, the screenshot       *)
(* capture of libreoffice_capture.py and the run of app.main over them.   *)
(* SpecExcel runs the two utilities on a file, SpecLLM one invocation of  *)
(* analyze_excel_with_llm, Spec one run of app.main with a file uploaded. *)
(*                                                                         *)
(* Text is modelled by TLA+ strings, built with \o exactly where the code  *)
(* builds it with f-strings and join.  The Japanese literals of the source *)
(* are written as ASCII stand-ins (TLA+ strings are ASCII); each stand-in  *)
(* names the literal it replaces.  Python's None is the record None; a     *)
(* Python value whose type matters is a one-field record tagged by its     *)
(* type ([int |-> 3], [str |-> "ID"]).  A Python dict is the sequence of   *)
(* its <<key, value>> items in insertion order.                            *)
(***************************************************************************)
EXTENDS Integers, Sequences, FiniteSets, TLC

VARIABLES
    pc,                    \* position of the running caller
    file_content,          \* the uploaded bytes, as what load_workbook makes of them
    max_rows,              \* the row cap handed to excel_to_text_representation
    basic_analysis,        \* what analyze_excel_structure returned
    text_representations,  \* what excel_to_text_representation returned
    image_paths,           \* the screenshots handed to analyze_excel_with_llm
    prompt,                \* the prompt analyze_excel_with_llm built
    llm_outcome,           \* what the chat-completions call did
    llm_response,          \* what call_openai_api returned
    raised,                \* the except branch analyze_excel_with_llm took
    analysis_result,       \* what analyze_excel_with_llm returned
    api_calls,             \* number of chat-completions requests sent
    api_log,               \* the chat-completions requests sent, in order
    request,               \* the page inputs of a run of app.main
    capture_step,          \* how far capture_excel_with_libreoffice got
    messages,              \* what app.main rendered, in order
    escaped                \* the exception that left app.main, or "none"

uiVars == <<request, capture_step, messages, escaped>>

vars == <<pc, file_content, max_rows, basic_analysis, text_representations,
          image_paths, prompt, llm_outcome, llm_response, raised, analysis_result,
          api_calls, api_log, request, capture_step, messages, escaped>>

(***************************************************************************)
(* Bounds of the model.                                                    *)
(***************************************************************************)
MaxRow == 3
MaxCol == 2
MaxCap == 3
TallRows == 25
MaxPdfPages == 4
MaxHdrRow == 2
MaxReplySheets == 2

(***************************************************************************)
(* Program constants.                                                      *)
(***************************************************************************)
DefaultMaxRows == 20
DebugMaxRows == 10

None == [none |-> TRUE]
NotYet == [unset |-> TRUE]

Min(a, b) == IF a < b THEN a ELSE b

(***************************************************************************)
(* Python string helpers.                                                  *)
(***************************************************************************)
StartsWith(s, p) == Len(s) >= Len(p) /\ SubSeq(s, 1, Len(p)) = p

EndsWith(s, p) == Len(s) >= Len(p) /\ SubSeq(s, Len(s) - Len(p) + 1, Len(s)) = p

IsSpace(ch) == ch \in {" ", "\n", "\t", "\r"}

RECURSIVE LStrip(_)
LStrip(s) ==
    IF Len(s) > 0 /\ IsSpace(SubSeq(s, 1, 1))
    THEN LStrip(SubSeq(s, 2, Len(s)))
    ELSE s

RECURSIVE RStrip(_)
RStrip(s) ==
    IF Len(s) > 0 /\ IsSpace(SubSeq(s, Len(s), Len(s)))
    THEN RStrip(SubSeq(s, 1, Len(s) - 1))
    ELSE s

Strip(s) == RStrip(LStrip(s))

\* sep.join(parts)
RECURSIVE Join(_, _)
Join(sep, parts) ==
    IF Len(parts) = 0 THEN ""
    ELSE IF Len(parts) = 1 THEN parts[1]
    ELSE parts[1] \o sep \o Join(sep, Tail(parts))

\* str(value) of a cell value that is not None
Str(value) ==
    IF "int" \in DOMAIN value THEN ToString(value.int) ELSE value.str

(***************************************************************************)
(* Python dict helpers: key in d, d[key], d[key] = value.                  *)
(***************************************************************************)
HasKey(d, key) == \E i \in 1..Len(d) : d[i][1] = key

Get(d, key) == d[CHOOSE i \in 1..Len(d) : d[i][1] = key][2]

Put(d, key, value) ==
    IF HasKey(d, key)
    THEN [i \in 1..Len(d) |-> IF d[i][1] = key THEN <<key, value>> ELSE d[i]]
    ELSE Append(d, <<key, value>>)

Keys(d) == [i \in 1..Len(d) |-> d[i][1]]

(***************************************************************************)
(* openpyxl.load_workbook: the bytes either fail to parse, raising an      *)
(* exception with a message, or give a workbook: its sheets in order, each *)
(* with title, max_row, max_column, cells, merged ranges and tables.       *)
(***************************************************************************)
LoadFails(content) == ~content.parses

\* "ファイルの読み込みに失敗しました: {e}"
LoadErrorMessage(e) == "file load failed: " \o e

LoadError(content) == << <<"error", LoadErrorMessage(content.exception)>> >>

InRange(rg, row_idx, col_idx) ==
    /\ rg.min_row <= row_idx /\ row_idx <= rg.max_row
    /\ rg.min_col <= col_idx /\ col_idx <= rg.max_col

IsAnchor(rg, row_idx, col_idx) ==
    row_idx = rg.min_row /\ col_idx = rg.min_col

(***************************************************************************)
(* analyze_excel_structure                                                 *)
(***************************************************************************)
\* the count of the iter_rows loop: cells of the declared extent with a value
NonEmptyCells(sheet) ==
    Cardinality({p \in (1..sheet.max_row) \X (1..sheet.max_column) :
                    sheet.cells[p].value # None})

\* the division without the guard against an empty extent
DataDensityUnguarded(non_empty_cells, total_possible_cells) ==
    [num |-> non_empty_cells, den |-> total_possible_cells]

\* non_empty_cells / total_possible_cells as the fraction num/den, or 0
DataDensity(non_empty_cells, total_possible_cells) ==
    IF total_possible_cells > 0
    THEN [num |-> non_empty_cells, den |-> total_possible_cells]
    ELSE [num |-> 0, den |-> 1]

TableEntries(sheet) ==
    IF sheet.tables > 0
    THEN << <<"has_excel_tables", TRUE>>, <<"num_excel_tables", sheet.tables>> >>
    ELSE << <<"has_excel_tables", FALSE>> >>

SheetResults(sheet) ==
    LET non_empty_cells == NonEmptyCells(sheet)
        total_possible_cells == sheet.max_row * sheet.max_column
    IN  << <<"max_row", sheet.max_row>>,
           <<"max_column", sheet.max_column>>,
           <<"data_density", DataDensity(non_empty_cells, total_possible_cells)>>,
           <<"non_empty_cells", non_empty_cells>>,
           <<"num_merged_cells", Len(sheet.merged_ranges)>> >>
        \o TableEntries(sheet)

RECURSIVE StructureLoop(_, _, _)
StructureLoop(sheets, i, analysis_results) ==
    IF i > Len(sheets) THEN analysis_results
    ELSE StructureLoop(sheets, i + 1,
            Put(analysis_results, sheets[i].title, SheetResults(sheets[i])))

analyze_excel_structure(content) ==
    IF LoadFails(content) THEN LoadError(content)
    ELSE StructureLoop(content.sheets, 1, <<>>)

(***************************************************************************)
(* excel_to_text_representation                                            *)
(***************************************************************************)
BaseText(cell) ==
    IF cell.value = None THEN "[EMPTY]" ELSE Str(cell.value)

\* the merge loop without its anchor test: every cell of a range is overridden
RECURSIVE MergeLoopNoAnchor(_, _, _, _, _)
MergeLoopNoAnchor(ranges, i, row_idx, col_idx, cell_text) ==
    IF i > Len(ranges) THEN cell_text
    ELSE IF InRange(ranges[i], row_idx, col_idx) THEN "[MERGED]"
    ELSE MergeLoopNoAnchor(ranges, i + 1, row_idx, col_idx, cell_text)

\* the loop over sheet.merged_cells.ranges: the first range holding the cell
\* decides, and the loop breaks there
RECURSIVE MergeLoop(_, _, _, _, _)
MergeLoop(ranges, i, row_idx, col_idx, cell_text) ==
    IF i > Len(ranges) THEN cell_text
    ELSE IF InRange(ranges[i], row_idx, col_idx)
         THEN IF IsAnchor(ranges[i], row_idx, col_idx)
              THEN cell_text
              ELSE "[MERGED]"
         ELSE MergeLoop(ranges, i + 1, row_idx, col_idx, cell_text)

MergeText(sheet, row_idx, col_idx, cell_text) ==
    MergeLoop(sheet.merged_ranges, 1, row_idx, col_idx, cell_text)

IsBold(cell) == cell.bold

BoldWrap(cell, cell_text) ==
    IF IsBold(cell) THEN "**" \o cell_text \o "**" ELSE cell_text

HasFill(cell) ==
    cell.patternType # None /\ cell.patternType.str # "" /\ cell.patternType.str # "none"

FillPrefix(cell, cell_text) ==
    IF HasFill(cell) THEN "[BG]" \o cell_text ELSE cell_text

\* the cell text with the fill prefix put on before the bold wrap
CellTextFillFirst(sheet, row_idx, col_idx) ==
    LET cell == sheet.cells[<<row_idx, col_idx>>]
    IN  BoldWrap(cell, FillPrefix(cell, MergeText(sheet, row_idx, col_idx, BaseText(cell))))

CellText(sheet, row_idx, col_idx) ==
    LET cell == sheet.cells[<<row_idx, col_idx>>]
    IN  FillPrefix(cell, BoldWrap(cell, MergeText(sheet, row_idx, col_idx, BaseText(cell))))

RowCells(sheet, row_idx) ==
    [col_idx \in 1..sheet.max_column |-> CellText(sheet, row_idx, col_idx)]

RowText(sheet, row_idx) ==
    "row" \o ToString(row_idx) \o ": | " \o Join(" | ", RowCells(sheet, row_idx)) \o " |"

ActualMaxRow(sheet, cap) == Min(sheet.max_row, cap)

RowLines(sheet, cap) ==
    [row_idx \in 1..ActualMaxRow(sheet, cap) |-> RowText(sheet, row_idx)]

\* "... (実際には{sheet.max_row}行ありますが、最初の{max_rows}行のみ表示)"
TruncationNotice(true_rows, cap) ==
    "... (actually " \o ToString(true_rows) \o " rows, only the first "
        \o ToString(cap) \o " rows shown)"

\* the truncation test off by one
IsTruncatedAtCap(sheet, cap) == sheet.max_row >= cap

IsTruncated(sheet, cap) == sheet.max_row > cap

TextLines(sheet, cap) ==
    RowLines(sheet, cap)
        \o (IF IsTruncated(sheet, cap)
            THEN <<TruncationNotice(sheet.max_row, cap)>>
            ELSE <<>>)

SheetText(sheet, cap) == Join("\n", TextLines(sheet, cap))

RECURSIVE TextLoop(_, _, _, _)
TextLoop(sheets, i, cap, representations) ==
    IF i > Len(sheets) THEN representations
    ELSE TextLoop(sheets, i + 1, cap,
            Put(representations, sheets[i].title, SheetText(sheets[i], cap)))

\* the conversion with the load failure swallowed: an empty mapping
ExcelToTextSwallowingLoadError(content, cap) ==
    TextLoop(content.sheets, 1, cap, <<>>)

excel_to_text_representation(content, cap) ==
    IF LoadFails(content) THEN LoadError(content)
    ELSE TextLoop(content.sheets, 1, cap, <<>>)


(***************************************************************************)
(* JSON.  A JSON value is [str |-> s], [int |-> n], [null |-> TRUE],       *)
(* [arr |-> <<values>>] or [obj |-> <<items>>], the items of an object in  *)
(* the order of the text, as json.loads keeps them.                        *)
(***************************************************************************)
JStr(s) == [str |-> s]
JInt(n) == [int |-> n]
JNull == [null |-> TRUE]
JArr(values) == [arr |-> values]
JObj(items) == [obj |-> items]

IsStr(v) == "str" \in DOMAIN v
IsInt(v) == "int" \in DOMAIN v
IsNull(v) == "null" \in DOMAIN v
IsArr(v) == "arr" \in DOMAIN v
IsObj(v) == "obj" \in DOMAIN v

\* the escapes of a JSON string literal
EscapeChar(ch) ==
    IF ch = "\"" THEN "\\\""
    ELSE IF ch = "\\" THEN "\\\\"
    ELSE IF ch = "\n" THEN "\\n"
    ELSE ch

RECURSIVE Escape(_)
Escape(s) ==
    IF Len(s) = 0 THEN ""
    ELSE EscapeChar(SubSeq(s, 1, 1)) \o Escape(SubSeq(s, 2, Len(s)))

Quote(s) == "\"" \o Escape(s) \o "\""

\* the text of a JSON value
RECURSIVE Dumps(_)
Dumps(v) ==
    IF IsStr(v) THEN Quote(v.str)
    ELSE IF IsInt(v) THEN ToString(v.int)
    ELSE IF IsNull(v) THEN "null"
    ELSE IF IsArr(v)
         THEN "[" \o Join(", ", [i \in 1..Len(v.arr) |-> Dumps(v.arr[i])]) \o "]"
    ELSE "{" \o Join(", ", [i \in 1..Len(v.obj) |->
                                Quote(v.obj[i][1]) \o ": " \o Dumps(v.obj[i][2])]) \o "}"

(***************************************************************************)
(* models.py: the pydantic models.  Each validates a JSON value and gives  *)
(* [valid |-> TRUE, value |-> the typed object] or [valid |-> FALSE].      *)
(***************************************************************************)
Invalid == [valid |-> FALSE]
Valid(value) == [valid |-> TRUE, value |-> value]

HeaderTypeLiteral == {"single", "multi-level"}

SheetTypeLiteral == {"table", "form", "mixed", "unknown"}

\* a required int field
IntField(items, key) == HasKey(items, key) /\ IsInt(Get(items, key))

\* a required str field
StrField(items, key) == HasKey(items, key) /\ IsStr(Get(items, key))

\* a Literal field validated as a plain str
LiteralFieldAsStr(items, key, literal) == StrField(items, key)

\* a required Literal field
LiteralField(items, key, literal) ==
    StrField(items, key) /\ Get(items, key).str \in literal

HeaderInfo(v) ==
    IF /\ IsObj(v)
       /\ IntField(v.obj, "start_row")
       /\ IntField(v.obj, "end_row")
       /\ LiteralField(v.obj, "header_type", HeaderTypeLiteral)
    THEN Valid([start_row |-> Get(v.obj, "start_row").int,
                end_row |-> Get(v.obj, "end_row").int,
                header_type |-> Get(v.obj, "header_type").str])
    ELSE Invalid

\* header_info never read: always None
OptionalHeaderInfoIgnored(items) == Valid(None)

\* header_info: Optional[HeaderInfo], None when the key is missing or null
OptionalHeaderInfo(items) ==
    IF ~HasKey(items, "header_info") \/ IsNull(Get(items, "header_info"))
    THEN Valid(None)
    ELSE HeaderInfo(Get(items, "header_info"))

SheetAnalysisResult(v) ==
    IF /\ IsObj(v)
       /\ StrField(v.obj, "sheet_name")
       /\ LiteralField(v.obj, "sheet_type", SheetTypeLiteral)
       /\ OptionalHeaderInfo(v.obj).valid
       /\ StrField(v.obj, "reasoning")
    THEN Valid([sheet_name |-> Get(v.obj, "sheet_name").str,
                sheet_type |-> Get(v.obj, "sheet_type").str,
                header_info |-> OptionalHeaderInfo(v.obj).value,
                reasoning |-> Get(v.obj, "reasoning").str])
    ELSE Invalid

\* ExcelAnalysisOutput(**json_data) for json_data a dict
ExcelAnalysisOutput(json_data) ==
    IF /\ HasKey(json_data.obj, "sheets")
       /\ IsArr(Get(json_data.obj, "sheets"))
       /\ \A i \in 1..Len(Get(json_data.obj, "sheets").arr) :
             SheetAnalysisResult(Get(json_data.obj, "sheets").arr[i]).valid
    THEN Valid([sheets |->
                  [i \in 1..Len(Get(json_data.obj, "sheets").arr) |->
                      SheetAnalysisResult(Get(json_data.obj, "sheets").arr[i]).value]])
    ELSE Invalid

\* model_dump(): the typed output as a JSON value, every field present
HeaderInfoDump(h) ==
    IF h = None THEN JNull
    ELSE JObj(<< <<"start_row", JInt(h.start_row)>>,
                 <<"end_row", JInt(h.end_row)>>,
                 <<"header_type", JStr(h.header_type)>> >>)

SheetDump(r) ==
    JObj(<< <<"sheet_name", JStr(r.sheet_name)>>,
            <<"sheet_type", JStr(r.sheet_type)>>,
            <<"header_info", HeaderInfoDump(r.header_info)>>,
            <<"reasoning", JStr(r.reasoning)>> >>)

model_dump(x) ==
    JObj(<< <<"sheets", JArr([i \in 1..Len(x.sheets) |-> SheetDump(x.sheets[i])])>> >>)

\* the structured (JSON) form of an AnalysisOutput
model_dump_json(x) == Dumps(model_dump(x))

(***************************************************************************)
(* llm_api.py: create_analysis_prompt, the two chat-completions callers    *)
(* and analyze_excel_with_llm.                                             *)
(***************************************************************************)
\* the fixed text before the sheets: task, JSON schema, criteria (glossed)
PromptHead ==
    "You are an AI assistant for Excel sheet structure analysis. "
        \o "Classify each sheet as table, form, mixed or unknown. "
        \o "Output only a JSON object following the schema. "
        \o "Below is the content of the Excel sheets as text:\n\n"

\* the fixed text after the sheets (glossed)
PromptTail == "\n\nOutput the JSON object only; include no other text."

create_analysis_prompt(excel_text_representation) ==
    PromptHead \o excel_text_representation \o PromptTail

\* f"\\n\\n=== シート: {sheet_name} ===\\n{text_repr}": the source escapes the
\* backslashes, so the text holds a backslash and an n, not a line break
SheetSection(sheet_name, text_repr) ==
    "\\n\\n=== Sheet: " \o sheet_name \o " ===\\n" \o text_repr

RECURSIVE CombineLoop(_, _, _)
CombineLoop(representations, i, combined_text) ==
    IF i > Len(representations) THEN combined_text
    ELSE CombineLoop(representations, i + 1,
            combined_text \o SheetSection(representations[i][1], representations[i][2]))

CombinedText(representations) == CombineLoop(representations, 1, "")

\* Python truth of an Optional[str]
Falsy(v) == v = None \/ v.str = ""

\* a callee that hands a rate-limit error on as text
CallResultRateLimitText(outcome) ==
    IF outcome.kind = "reply" THEN outcome.content
    ELSE IF outcome.kind = "RateLimitError" THEN [str |-> outcome.kind]
    ELSE None

\* what call_openai_api / call_openai_api_with_images return: the message
\* content of a reply, None for every exception
CallResult(outcome) ==
    IF outcome.kind = "reply" THEN outcome.content ELSE None

\* the code-fence marker, three backquotes; a TLA+ string cannot hold a
\* backquote, so the character ~ stands for it in every text of the model
Fence == "~~~"

\* the fence stripping of analyze_excel_with_llm
StripJsonFence(s) ==
    IF StartsWith(s, Fence \o "json") THEN SubSeq(s, 8, Len(s)) ELSE s

StripOpenFence(s) == IF StartsWith(s, Fence) THEN SubSeq(s, 4, Len(s)) ELSE s

StripCloseFence(s) == IF EndsWith(s, Fence) THEN SubSeq(s, 1, Len(s) - 3) ELSE s

CleanResponse(response) ==
    Strip(StripCloseFence(StripOpenFence(StripJsonFence(Strip(response)))))

(***************************************************************************)
(* The inputs: cells, sheets and uploaded files.                           *)
(***************************************************************************)
CellValues == {None, [int |-> 0], [str |-> "ID"]}

PatternTypes == {None, [str |-> "none"], [str |-> "solid"]}

CellKinds == [value : CellValues, bold : BOOLEAN, patternType : PatternTypes]

PlainEmpty == [value |-> None, bold |-> FALSE, patternType |-> None]

PlainValue == [value |-> [str |-> "x"], bold |-> FALSE, patternType |-> None]

BaseKinds == {PlainEmpty, PlainValue}

Grid(rows, cols) == (1..rows) \X (1..cols)

\* the rectangles of more than one cell inside a rows x cols grid
Rectangles(rows, cols) ==
    {rg \in [min_row : 1..rows, max_row : 1..rows, min_col : 1..cols, max_col : 1..cols] :
        /\ rg.min_row <= rg.max_row
        /\ rg.min_col <= rg.max_col
        /\ (rg.min_row < rg.max_row \/ rg.min_col < rg.max_col)}

Overlap(a, b) ==
    /\ a.min_row <= b.max_row /\ b.min_row <= a.max_row
    /\ a.min_col <= b.max_col /\ b.min_col <= a.max_col

\* the merged ranges of a sheet never overlap: none, one, or the first row
\* merged with a second range below it
MergeChoices(rows, cols) ==
    {<<>>}
    \cup {<<rg>> : rg \in Rectangles(rows, cols)}
    \cup {<<a, b>> : a \in {rg \in Rectangles(rows, cols) : rg.max_row = 1 /\ rg.min_col = 1},
                     b \in {rg \in Rectangles(rows, cols) : rg.min_row = 2 /\ rg.min_col = 1}}

MkSheet(title, rows, cols, base, special, pos, ranges, tables) ==
    [title |-> title, max_row |-> rows, max_column |-> cols,
     cells |-> [p \in Grid(rows, cols) |-> IF p = pos THEN special ELSE base],
     merged_ranges |-> ranges, tables |-> tables]

Workbook(sheets) == [parses |-> TRUE, exception |-> "", sheets |-> sheets]

\* the first and the last cell of the grid: with the merge choices, a cell
\* that is an anchor, one inside a range and not its anchor, one outside
Corners(rows, cols) == {<<1, 1>>, <<rows, cols>>}

SheetTitles == {"Sheet1", "Data", "error"}

BoldHeader == [value |-> [str |-> "ID"], bold |-> TRUE, patternType |-> [str |-> "solid"]]

SampleSheet(title, tables) ==
    MkSheet(title, 2, 2, [value |-> [int |-> 0], bold |-> FALSE, patternType |-> None],
            BoldHeader, <<1, 1>>, <<>>, tables)

\* one sheet, every extent up to MaxRow x MaxCol (0 included), one cell of
\* any kind at a corner among cells of a base kind, under every merge choice
IsRichFile(content) ==
    \E rows \in 0..MaxRow, cols \in 0..MaxCol, base \in BaseKinds, special \in CellKinds :
        \E pos \in Corners(rows, cols), ranges \in MergeChoices(rows, cols) :
            content = Workbook(<<MkSheet("Sheet1", rows, cols, base, special, pos, ranges, 0)>>)

\* a sheet taller than the default cap
IsTallFile(content) ==
    \E special \in {PlainEmpty, BoldHeader} :
        content = Workbook(<<MkSheet("Sheet1", TallRows, 1, PlainValue, special, <<1, 1>>, <<>>, 0)>>)

\* workbooks of one or two sheets with distinct titles, with and without a table
IsBookFile(content) ==
    \E a \in SheetTitles, t \in 0..1 :
        \/ content = Workbook(<<SampleSheet(a, t)>>)
        \/ \E b \in SheetTitles \ {a} :
              content = Workbook(<<SampleSheet(a, t), SampleSheet(b, 0)>>)

\* bytes load_workbook rejects, with the exception's text
IsBrokenFile(content) ==
    \E e \in {"File is not a zip file", "error"} :
        content = [parses |-> FALSE, exception |-> e, sheets |-> <<>>]

IsTall(content) ==
    \E i \in 1..Len(content.sheets) : content.sheets[i].max_row = TallRows

\* the row caps a caller passes: the default, the debug view's, small ones
Caps(content) ==
    IF IsTall(content) THEN {DefaultMaxRows, DebugMaxRows} ELSE 0..MaxCap

(***************************************************************************)
(* The two utility calls a run of app.main makes on an uploaded file:      *)
(* profile it, then serialize it under a row cap.                          *)
(***************************************************************************)
InitExcel ==
    /\ pc = "start"
    /\ \/ IsRichFile(file_content)
       \/ IsTallFile(file_content)
       \/ IsBookFile(file_content)
       \/ IsBrokenFile(file_content)
    /\ max_rows = NotYet
    /\ basic_analysis = NotYet
    /\ text_representations = NotYet
    /\ image_paths = NotYet
    /\ prompt = NotYet
    /\ llm_outcome = NotYet
    /\ llm_response = NotYet
    /\ raised = "unset"
    /\ analysis_result = NotYet
    /\ api_calls = 0
    /\ api_log = <<>>
    /\ request = NotYet
    /\ capture_step = NotYet
    /\ messages = <<>>
    /\ escaped = "none"

AnalyzeStructure ==
    /\ pc = "start"
    /\ basic_analysis' = analyze_excel_structure(file_content)
    /\ pc' = "analyzed"
    /\ UNCHANGED <<file_content, max_rows, text_representations, image_paths, prompt,
                   llm_outcome, llm_response, raised, analysis_result, api_calls>>
    /\ UNCHANGED <<api_log, uiVars>>

ConvertToText ==
    /\ pc = "analyzed"
    /\ \E cap \in Caps(file_content) :
        /\ max_rows' = cap
        /\ text_representations' = excel_to_text_representation(file_content, cap)
    /\ pc' = "converted"
    /\ UNCHANGED <<file_content, basic_analysis, image_paths, prompt,
                   llm_outcome, llm_response, raised, analysis_result, api_calls>>
    /\ UNCHANGED <<api_log, uiVars>>

NextExcel == AnalyzeStructure \/ ConvertToText

SpecExcel == InitExcel /\ [][NextExcel]_vars


(***************************************************************************)
(* Reading a serialized sheet back: its lines, and the cells of a row      *)
(* line.  These read the output text; they are not part of the program.    *)
(***************************************************************************)
\* where sep occurs in s
Occurrences(s, sep) ==
    {i \in 1..(Len(s) - Len(sep) + 1) : SubSeq(s, i, i + Len(sep) - 1) = sep}

\* s.split(sep): the pieces between the occurrences of sep, left to right
RECURSIVE SplitFrom(_, _, _, _)
SplitFrom(s, sep, found, start) ==
    LET later == {i \in found : i >= start}
    IN  IF later = {} THEN <<SubSeq(s, start, Len(s))>>
        ELSE LET i == CHOOSE k \in later : \A j \in later : k <= j
             IN  <<SubSeq(s, start, i - 1)>> \o SplitFrom(s, sep, found, i + Len(sep))

Split(s, sep) == SplitFrom(s, sep, Occurrences(s, sep), 1)

\* the lines of a text: none for the empty text
LinesOf(text) == IF text = "" THEN <<>> ELSE Split(text, "\n")

Contains(s, sub) == Occurrences(s, sub) # {}

RowPrefix(r) == "row" \o ToString(r) \o ": | "

\* the cell texts of the row line of row r, between "row{r}: | " and " |"
CellsOfLine(line, r) ==
    Split(SubSeq(line, Len(RowPrefix(r)) + 1, Len(line) - 2), " | ")

Converted == pc = "converted" /\ file_content.parses

Analyzed == pc \in {"analyzed", "converted"} /\ file_content.parses

SheetsOf(content) == {content.sheets[i] : i \in 1..Len(content.sheets)}

OutputLines(sheet) == LinesOf(Get(text_representations, sheet.title))

\* the text of cell (r, c) as the output of the sheet shows it
ShownCell(sheet, r, c) == CellsOfLine(OutputLines(sheet)[r], r)[c]

ShownRows(sheet) == 1..Min(sheet.max_row, max_rows)

RangesOf(sheet) == {sheet.merged_ranges[i] : i \in 1..Len(sheet.merged_ranges)}

CellsIn(rg) == (rg.min_row..rg.max_row) \X (rg.min_col..rg.max_col)

Anchor(rg) == <<rg.min_row, rg.min_col>>

\* the value's text, or "[EMPTY]" for a cell with no value
OwnText(cell) ==
    IF cell.value = None THEN "[EMPTY]"
    ELSE IF "int" \in DOMAIN cell.value THEN ToString(cell.value.int)
    ELSE cell.value.str

Filled(cell) == cell.patternType \notin {None, [str |-> "none"]}

\* fill-prefix(bold-wrap(base))
Decorated(cell, base) ==
    (IF Filled(cell) THEN "[BG]" ELSE "")
        \o (IF cell.bold THEN "**" ELSE "") \o base \o (IF cell.bold THEN "**" ELSE "")

MergedOver(sheet, p) ==
    \E rg \in RangesOf(sheet) : p \in CellsIn(rg) /\ p # Anchor(rg)

\* C1: in every sheet and every merge range, each serialized cell of the
\* range other than the anchor shows "[MERGED]" under its bold/fill
\* decoration whatever value it stores, and the anchor shows its own value,
\* or "[EMPTY]" when it has none.
C1_MergedCellsShowMerged ==
    Converted =>
        \A sheet \in SheetsOf(file_content) :
            LET lines == OutputLines(sheet)
            IN  \A r \in ShownRows(sheet) :
                    LET shown == CellsOfLine(lines[r], r)
                    IN  \A rg \in RangesOf(sheet) : \A c \in rg.min_col..rg.max_col :
                            r \in rg.min_row..rg.max_row =>
                                shown[c] =
                                    Decorated(sheet.cells[<<r, c>>],
                                              IF <<r, c>> = Anchor(rg)
                                              THEN OwnText(sheet.cells[<<r, c>>])
                                              ELSE "[MERGED]")

\* a serialized range whose anchor has no value and which holds another
\* cell that stores a value
C1_Witness ==
    /\ Converted
    /\ \E sheet \in SheetsOf(file_content) : \E rg \in RangesOf(sheet) :
          /\ sheet.cells[Anchor(rg)].value = None
          /\ \E p \in CellsIn(rg) \ {Anchor(rg)} :
                /\ p[1] \in ShownRows(sheet)
                /\ sheet.cells[p].value # None
                /\ ShownCell(sheet, p[1], p[2]) = "[MERGED]"

\* C2: every serialized cell shows fill-prefix(bold-wrap(base)), base being
\* "[MERGED]" for a merged cell that is not an anchor, "[EMPTY]" for a cell
\* with no value otherwise, and the value's text otherwise; so a bold,
\* filled, empty cell outside every merge shows "[BG]**[EMPTY]**" and a
\* bold, unfilled merged cell that is not an anchor shows "**[MERGED]**".
C2_DecorationOrder ==
    Converted =>
        \A sheet \in SheetsOf(file_content) :
            LET lines == OutputLines(sheet)
            IN  \A r \in ShownRows(sheet) :
                    LET shown == CellsOfLine(lines[r], r)
                    IN  \A c \in 1..sheet.max_column :
                            LET cell == sheet.cells[<<r, c>>]
                                merged == MergedOver(sheet, <<r, c>>)
                            IN  /\ shown[c] =
                                      Decorated(cell, IF merged THEN "[MERGED]" ELSE OwnText(cell))
                                /\ (cell.bold /\ Filled(cell) /\ cell.value = None /\ ~merged)
                                      => shown[c] = "[BG]**[EMPTY]**"
                                /\ (cell.bold /\ ~Filled(cell) /\ merged)
                                      => shown[c] = "**[MERGED]**"

\* a serialized bold, filled, empty cell outside every merge, in a sheet
\* that has a merge
C2_Witness ==
    /\ Converted
    /\ \E sheet \in SheetsOf(file_content) :
          /\ RangesOf(sheet) # {}
          /\ \E r \in ShownRows(sheet), c \in 1..sheet.max_column :
                /\ sheet.cells[<<r, c>>].bold
                /\ Filled(sheet.cells[<<r, c>>])
                /\ sheet.cells[<<r, c>>].value = None
                /\ ~MergedOver(sheet, <<r, c>>)
                /\ ShownCell(sheet, r, c) = "[BG]**[EMPTY]**"

\* C3: the output of a sheet of R rows under cap C is min(R, C) row lines,
\* for rows 1..min(R, C) in order, followed by one notice line naming R and
\* C exactly when R > C; when R <= C every line is a row line.
C3_RowLinesAndNotice ==
    Converted =>
        \A sheet \in SheetsOf(file_content) :
            LET lines == OutputLines(sheet)
                n == Min(sheet.max_row, max_rows)
            IN  /\ Len(lines) = n + (IF sheet.max_row > max_rows THEN 1 ELSE 0)
                /\ \A r \in 1..n :
                      /\ StartsWith(lines[r], RowPrefix(r))
                      /\ EndsWith(lines[r], " |")
                /\ sheet.max_row > max_rows =>
                      /\ StartsWith(lines[n + 1], "... (")
                      /\ Contains(lines[n + 1], ToString(sheet.max_row) \o " ")
                      /\ Contains(lines[n + 1], " " \o ToString(max_rows) \o " ")

\* the sheet of 25 rows under the default cap of 20: 20 row lines and the notice
C3_Witness ==
    /\ Converted
    /\ max_rows = DefaultMaxRows
    /\ \E sheet \in SheetsOf(file_content) :
          /\ sheet.max_row = TallRows
          /\ Len(OutputLines(sheet)) = DefaultMaxRows + 1

ExtentCount(sheet) ==
    Cardinality({p \in Grid(sheet.max_row, sheet.max_column) : sheet.cells[p].value # None})

\* C4: every profiled sheet has data_density = non_empty_cells /
\* (max_row * max_column) with 0 <= non_empty_cells <= max_row * max_column,
\* the count taken over the whole declared extent, and data_density is 0,
\* with no error, when max_row = 0 or max_column = 0.
C4_DataDensityInUnitInterval ==
    Analyzed =>
        \A sheet \in SheetsOf(file_content) :
            LET stats == Get(basic_analysis, sheet.title)
                density == Get(stats, "data_density")
                total == sheet.max_row * sheet.max_column
            IN  /\ density.den > 0
                /\ 0 <= density.num /\ density.num <= density.den
                /\ Get(stats, "non_empty_cells") = ExtentCount(sheet)
                /\ total > 0 =>
                      density = [num |-> ExtentCount(sheet), den |-> total]
                /\ total = 0 => density.num = 0

\* a profiled sheet with no rows and two columns
C4_Witness ==
    /\ Analyzed
    /\ \E sheet \in SheetsOf(file_content) :
          /\ sheet.max_row = 0
          /\ sheet.max_column = 2
          /\ Get(Get(basic_analysis, sheet.title), "data_density").num = 0

Titles(content) == [i \in 1..Len(content.sheets) |-> content.sheets[i].title]

Absent == [absent |-> TRUE]

\* the items of an object, the absent keys left out
Items(pairs) == SelectSeq(pairs, LAMBDA q : q[2] # Absent)

HdrRows == 0..MaxHdrRow

JsonHeader(start_row, end_row, header_type) ==
    JObj(Items(<< <<"start_row", start_row>>, <<"end_row", end_row>>,
                  <<"header_type", header_type>> >>))

HeaderOptions ==
    {Absent, JNull}
    \cup {JsonHeader(a, b, t) :
            a \in {Absent} \cup {JInt(n) : n \in HdrRows},
            b \in {Absent} \cup {JInt(n) : n \in HdrRows},
            t \in {Absent} \cup {JStr(x) : x \in HeaderTypeLiteral \cup {"double"}}}

SheetTypeOptions ==
    {Absent} \cup {JStr(x) : x \in SheetTypeLiteral \cup {"unknown_type"}}

JsonSheet(sheet_name, sheet_type, header_info, reasoning) ==
    JObj(Items(<< <<"sheet_name", sheet_name>>, <<"sheet_type", sheet_type>>,
                  <<"header_info", header_info>>, <<"reasoning", reasoning>> >>))

FullItems ==
    {JsonSheet(JStr("Sheet1"), t, h, JStr("bold header row")) :
        t \in SheetTypeOptions, h \in HeaderOptions}

GoodHeader == JsonHeader(JInt(1), JInt(1), JStr("single"))

GapItems ==
    {JsonSheet(Absent, JStr("table"), GoodHeader, JStr("bold header row")),
     JsonSheet(JStr("Sheet1"), JStr("table"), GoodHeader, Absent),
     JsonSheet(JStr("Sheet1"), JStr("form"), Absent, JNull),
     JsonSheet(JInt(1), JStr("form"), Absent, JStr("labels and values")),
     JsonSheet(JStr("Sheet1"), JStr("table"), JStr("row 1"), JStr("bold header row"))}

ProbeItems ==
    {JsonSheet(JStr("Sheet1"), JStr("table"), GoodHeader, JStr("bold header row")),
     JsonSheet(JStr("Data"), JStr("form"), Absent, JStr("labels and values")),
     JsonSheet(JStr("Data"), JStr("unknown_type"), JNull, JStr("unclear")),
     JsonSheet(JStr("Data"), JStr("unknown"), GoodHeader, JStr("unclear"))}

SeqsUpTo(S, n) == UNION {[1..k -> S] : k \in 0..n}

SheetsObject(items) == JObj(<< <<"sheets", JArr(items)>> >>)

JsonBodies ==
    {SheetsObject(<<item>>) : item \in FullItems \cup GapItems}
    \cup {SheetsObject(items) : items \in SeqsUpTo(ProbeItems, MaxReplySheets)}
    \cup {JObj(<<>>), JArr(<<>>), JObj(<< <<"sheets", JNull>> >>),
          JObj(<< <<"result", JStr("table")>> >>)}

TypedHeaders ==
    {None} \cup [start_row : HdrRows, end_row : HdrRows, header_type : HeaderTypeLiteral]

TypedItems ==
    [sheet_name : {"Sheet1"}, sheet_type : SheetTypeLiteral, header_info : TypedHeaders,
     reasoning : {"bold header row", "row 1 says \"ID\"\nin bold"}]

TypedProbes ==
    {[sheet_name |-> "Sheet1", sheet_type |-> "table",
      header_info |-> [start_row |-> 1, end_row |-> 2, header_type |-> "multi-level"],
      reasoning |-> "merged header"],
     [sheet_name |-> "Data", sheet_type |-> "form", header_info |-> None,
      reasoning |-> "labels and values"]}

\* instances of ExcelAnalysisOutput
TypedOutputs ==
    {[sheets |-> <<item>>] : item \in TypedItems}
    \cup {[sheets |-> items] : items \in SeqsUpTo(TypedProbes, MaxReplySheets)}

\* the JSON values whose texts occur among the replies
JsonValues == JsonBodies \cup {model_dump(x) : x \in TypedOutputs}

JsonTexts == {<<Dumps(v), v>> : v \in JsonValues}

\* json.loads over the texts in play: the value of a text that is the JSON
\* text of a value, JSONDecodeError for any other text
Loads(text) ==
    IF \E e \in JsonTexts : e[1] = text
    THEN [ok |-> TRUE, value |-> (CHOOSE e \in JsonTexts : e[1] = text)[2]]
    ELSE [ok |-> FALSE]

NotJson == [malformed |-> TRUE]

MalformedTexts ==
    {"I cannot analyze this file.", "{\"sheets\": [", "{'sheets': []}"}

FenceStyles == {"plain", "json", "bare", "upper", "padded"}

Fenced(style, body) ==
    IF style = "json" THEN Fence \o "json\n" \o body \o "\n" \o Fence
    ELSE IF style = "bare" THEN Fence \o "\n" \o body \o "\n" \o Fence
    ELSE IF style = "upper" THEN Fence \o "JSON\n" \o body \o "\n" \o Fence
    ELSE IF style = "padded" THEN "\n  " \o body \o "  \n"
    ELSE body

Reply(content, body, style, dumped) ==
    [kind |-> "reply", content |-> content, body |-> body, style |-> style,
     dumped |-> dumped]

\* what one chat-completions request can do
ApiOutcomes ==
    {Reply([str |-> Fenced(style, Dumps(v))], v, style, None) :
        v \in JsonBodies, style \in FenceStyles}
    \cup {Reply([str |-> Fenced(style, t)], NotJson, style, None) :
            t \in MalformedTexts, style \in FenceStyles}
    \cup {Reply([str |-> model_dump_json(x)], model_dump(x), "plain", x) : x \in TypedOutputs}
    \cup {Reply(None, NotJson, "plain", None), Reply([str |-> ""], NotJson, "plain", None)}
    \cup {[kind |-> e] :
            e \in {"AuthenticationError", "RateLimitError", "APIError", "Exception"}}

(***************************************************************************)
(* analyze_excel_with_llm, in three steps: up to the request, the request, *)
(* and from the response on.                                               *)
(***************************************************************************)
\* from "if not llm_response" to the end of the function
ParseAndValidate(response) ==
    IF Falsy(response) THEN [result |-> None, raised |-> "none"]
    ELSE LET loaded == Loads(CleanResponse(response.str))
         IN  IF ~loaded.ok THEN [result |-> None, raised |-> "JSONDecodeError"]
             ELSE IF ~IsObj(loaded.value) THEN [result |-> None, raised |-> "Exception"]
             ELSE IF ~ExcelAnalysisOutput(loaded.value).valid
                  THEN [result |-> None, raised |-> "ValidationError"]
             ELSE [result |-> ExcelAnalysisOutput(loaded.value).value, raised |-> "none"]

\* test_representations of test_llm_functionality (its Japanese words glossed)
TestRepresentations ==
    << <<"TestSheet",
         "\nrow1: | **ID** | **name** | **value** |\nrow2: | 1 | apple | 100 |\nrow3: | 2 | orange | 150 |\n">> >>

TwoSheets ==
    excel_to_text_representation(
        Workbook(<<SampleSheet("Sheet1", 0), SampleSheet("Data", 0)>>), DefaultMaxRows)

NoImages == [list |-> <<>>]

OneImage == [list |-> <<"/tmp/excel_captures/excel_sheet_1.png">>]

\* the calls of analyze_excel_with_llm: the mapping and the image paths
LLMCalls ==
    {<<TestRepresentations, None>>, <<TestRepresentations, NoImages>>,
     <<TestRepresentations, OneImage>>, <<TwoSheets, None>>, <<TwoSheets, OneImage>>,
     << <<>>, None >>}

InitLLM ==
    /\ pc = "llm_entry"
    /\ file_content = NotYet
    /\ max_rows = NotYet
    /\ basic_analysis = NotYet
    /\ \E call \in LLMCalls :
          /\ text_representations = call[1]
          /\ image_paths = call[2]
    /\ prompt = NotYet
    /\ llm_outcome = NotYet
    /\ llm_response = NotYet
    /\ raised = "unset"
    /\ analysis_result = NotYet
    /\ api_calls = 0
    /\ api_log = <<>>
    /\ request = NotYet
    /\ capture_step = NotYet
    /\ messages = <<>>
    /\ escaped = "none"

\* lines 213-221: an empty mapping returns None, any other builds the prompt
BuildPrompt ==
    /\ pc = "llm_entry"
    /\ IF Len(text_representations) = 0
       THEN /\ analysis_result' = None
            /\ pc' = "returned"
            /\ UNCHANGED prompt
       ELSE /\ prompt' = create_analysis_prompt(CombinedText(text_representations))
            /\ pc' = "llm_call"
            /\ UNCHANGED analysis_result
    /\ UNCHANGED <<file_content, max_rows, basic_analysis, text_representations,
                   image_paths, llm_outcome, llm_response, raised, api_calls>>
    /\ UNCHANGED <<api_log, uiVars>>

\* lines 224-228: "image_paths and len(image_paths) > 0" picks the callee
Callee(paths) ==
    IF paths # None /\ Len(paths.list) > 0 THEN "call_openai_api_with_images"
    ELSE "call_openai_api"

\* lines 223-228: one request, with images when image_paths holds any
CallModel ==
    /\ pc = "llm_call"
    /\ \E outcome \in ApiOutcomes :
          /\ llm_outcome' = outcome
          /\ llm_response' = CallResult(outcome)
    /\ api_calls' = api_calls + 1
    /\ api_log' = Append(api_log, [fn |-> Callee(image_paths), prompt |-> prompt])
    /\ pc' = "llm_called"
    /\ UNCHANGED <<file_content, max_rows, basic_analysis, text_representations,
                   image_paths, prompt, raised, analysis_result>>
    /\ UNCHANGED uiVars

\* a parser that sends the request again when the first reply gives no result
ParseResponseRetrying ==
    /\ pc = "llm_called"
    /\ analysis_result' = ParseAndValidate(llm_response).result
    /\ raised' = ParseAndValidate(llm_response).raised
    /\ pc' = IF ParseAndValidate(llm_response).result = None /\ api_calls < 2
             THEN "llm_call" ELSE "returned"
    /\ UNCHANGED <<file_content, max_rows, basic_analysis, text_representations,
                   image_paths, prompt, llm_outcome, llm_response, api_calls>>
    /\ UNCHANGED <<api_log, uiVars>>

\* lines 230-261
ParseResponse ==
    /\ pc = "llm_called"
    /\ analysis_result' = ParseAndValidate(llm_response).result
    /\ raised' = ParseAndValidate(llm_response).raised
    /\ pc' = "returned"
    /\ UNCHANGED <<file_content, max_rows, basic_analysis, text_representations,
                   image_paths, prompt, llm_outcome, llm_response, api_calls>>
    /\ UNCHANGED <<api_log, uiVars>>

NextLLM == BuildPrompt \/ CallModel \/ ParseResponse

SpecLLM == InitLLM /\ [][NextLLM]_vars


(***************************************************************************)
(* libreoffice_capture.py: the screenshot capture.  A run is described by  *)
(* the step at which it fails ("none" when no step fails), the number of   *)
(* pages of the PDF and the converter that turns the PDF into images.      *)
(***************************************************************************)
Returns(value) == [raises |-> "none", value |-> value]

Raises(exception) == [raises |-> exception]

\* first_page=1, last_page=3 and "-f 1 -l 3": the pages that become images
CapturePages == 3

OutputDir == "/tmp/excel_captures"

\* os.path.join(output_dir, f"excel_sheet_{i+1}.png"), i + 1 = page
Pdf2ImagePath(page) == OutputDir \o "/excel_sheet_" \o ToString(page) \o ".png"

\* f"{output_prefix}-{i:02d}.png"
PopplerPath(page) == OutputDir \o "/excel_sheet-0" \o ToString(page) \o ".png"

Converters ==
    {"pdf2image", "pdf2image_error", "poppler", "poppler_status", "poppler_error"}

\* with pdf2image missing (ImportError) pdftoppm converts the PDF
convert_pdf_with_poppler(pages, converter) ==
    IF converter = "poppler"
    THEN [page \in 1..Min(pages, CapturePages) |-> PopplerPath(page)]
    ELSE <<>>

convert_pdf_to_images(pages, converter) ==
    IF converter = "pdf2image"
    THEN [page \in 1..Min(pages, CapturePages) |-> Pdf2ImagePath(page)]
    ELSE IF converter = "pdf2image_error" THEN <<>>
    ELSE convert_pdf_with_poppler(pages, converter)

\* the steps of capture_excel_with_libreoffice that can fail
CaptureFaults ==
    {"tempfile", "makedirs", "xvfb", "convert_timeout", "convert_status", "no_pdf"}

\* the outer finally reads temp_excel_path, which is bound only once the
\* temporary file has been created and written
TempPathBound(fault) == fault # "tempfile"

\* the value capture_excel_with_libreoffice returns or the exception it
\* raises: every failing step ends in "return None", and the outer finally
\* then raises UnboundLocalError when temp_excel_path was never bound
capture_excel_with_libreoffice(fault, pages, converter) ==
    IF ~TempPathBound(fault) THEN Raises("UnboundLocalError")
    ELSE IF fault \in CaptureFaults THEN Returns(None)
    ELSE Returns([list |-> convert_pdf_to_images(pages, converter)])

\* Python truth of an Optional[List[str]]
HasImages(paths) == paths # None /\ Len(paths.list) > 0


(***************************************************************************)
(* app.py: one run of main with a file uploaded.  The page inputs are the  *)
(* API key, whether the analysis button was pressed and the capture        *)
(* checkbox.                                                               *)
(***************************************************************************)
\* a chart sheet: workbook.sheetnames lists it and workbook[sheet_name]
\* returns it, but it is no grid: it has no max_row, max_column, cells or
\* merged_cells
Chartsheet(title) == [title |-> title, chartsheet |-> TRUE]

IsChartsheet(sheet) == "chartsheet" \in DOMAIN sheet

\* the per-sheet loops of excel_utils read sheet.max_row (line 33) and
\* sheet.merged_cells (line 92) outside any try: on a chart sheet the read
\* raises AttributeError
SheetReadRaises(content) ==
    content.parses /\ \E i \in 1..Len(content.sheets) : IsChartsheet(content.sheets[i])

\* the uploads: a sample workbook, one with a sheet titled "error", one with
\* a chart sheet, a workbook part that lists no sheet, and bytes that do
\* not load
IsMainFile(content) ==
    \/ content = Workbook(<<SampleSheet("Sheet1", 1), SampleSheet("Data", 0)>>)
    \/ content = Workbook(<<SampleSheet("error", 0), SampleSheet("Data", 0)>>)
    \/ content = Workbook(<<SampleSheet("Sheet1", 0), Chartsheet("Chart1")>>)
    \/ content = Workbook(<<>>)
    \/ IsBrokenFile(content)

Requests == [api_key : {"", "sk-test"}, pressed : BOOLEAN, use_image_capture : BOOLEAN]

\* st.error / st.warning / st.success / st.info, named by the line that renders
Message(level, line) == [level |-> level, line |-> line]

InitMain ==
    /\ pc = "main"
    /\ IsMainFile(file_content)
    /\ request \in Requests
    /\ max_rows = NotYet
    /\ basic_analysis = NotYet
    /\ text_representations = NotYet
    /\ image_paths = NotYet
    /\ prompt = NotYet
    /\ llm_outcome = NotYet
    /\ llm_response = NotYet
    /\ raised = "unset"
    /\ analysis_result = NotYet
    /\ api_calls = 0
    /\ api_log = <<>>
    /\ capture_step = NotYet
    /\ messages = <<>>
    /\ escaped = "none"

\* lines 71-96: the basic analysis, outside any try
BasicAnalysis ==
    /\ pc = "main"
    /\ IF SheetReadRaises(file_content)
       THEN /\ escaped' = "AttributeError"
            /\ pc' = "crashed"
            /\ UNCHANGED <<basic_analysis, messages>>
       ELSE /\ basic_analysis' = analyze_excel_structure(file_content)
            /\ messages' = IF HasKey(analyze_excel_structure(file_content), "error")
                           THEN Append(messages, Message("error", 79))
                           ELSE messages
            /\ pc' = "col2"
            /\ UNCHANGED escaped
    /\ UNCHANGED <<file_content, max_rows, text_representations, image_paths, prompt,
                   llm_outcome, llm_response, raised, analysis_result, api_calls,
                   api_log, request, capture_step>>

\* lines 98-111 and 177-180: the analysis runs when a key is set and the
\* button was pressed
OpenResults ==
    /\ pc = "col2"
    /\ IF request.api_key # "" /\ request.pressed
       THEN pc' = "capture" /\ UNCHANGED messages
       ELSE /\ pc' = "debug"
            /\ messages' = IF request.api_key = ""
                           THEN Append(messages, Message("info", 180))
                           ELSE messages
    /\ UNCHANGED <<file_content, max_rows, basic_analysis, text_representations,
                   image_paths, prompt, llm_outcome, llm_response, raised,
                   analysis_result, api_calls, api_log, request, capture_step, escaped>>

CaptureRuns ==
    [fault : CaptureFaults, pages : {0}, converter : {"pdf2image"}]
    \cup [fault : {"none"}, pages : {0, 1, MaxPdfPages}, converter : Converters]

\* lines 113-128, inside the try of line 108: an exception of the capture
\* goes to the except of line 174
CaptureImages ==
    /\ pc = "capture"
    /\ IF ~request.use_image_capture
       THEN /\ image_paths' = None
            /\ capture_step' = "skipped"
            /\ pc' = "serialize"
            /\ UNCHANGED messages
       ELSE \E run \in CaptureRuns :
              LET captured == capture_excel_with_libreoffice(run.fault, run.pages, run.converter)
              IN  /\ capture_step' = run.fault
                  /\ IF captured.raises # "none"
                     THEN /\ image_paths' = None
                          /\ messages' = Append(messages, Message("error", 175))
                          /\ pc' = "debug"
                     ELSE /\ image_paths' = captured.value
                          /\ messages' = Append(messages,
                                IF HasImages(captured.value) THEN Message("success", 121)
                                ELSE Message("warning", 128))
                          /\ pc' = "serialize"
    /\ UNCHANGED <<file_content, max_rows, basic_analysis, text_representations, prompt,
                   llm_outcome, llm_response, raised, analysis_result, api_calls,
                   api_log, request, escaped>>

\* the serialization step without the test for the key "error"
SerializeForModelUntested ==
    /\ pc = "serialize"
    /\ max_rows' = DefaultMaxRows
    /\ text_representations' = excel_to_text_representation(file_content, DefaultMaxRows)
    /\ pc' = "llm_entry"
    /\ UNCHANGED <<file_content, basic_analysis, image_paths, prompt, llm_outcome,
                   llm_response, raised, analysis_result, api_calls, api_log, request,
                   capture_step, messages, escaped>>

\* lines 130-135: serialize under the default cap; the analysis is entered
\* only when the mapping has no key "error"
SerializeForModel ==
    /\ pc = "serialize"
    /\ max_rows' = DefaultMaxRows
    /\ text_representations' = excel_to_text_representation(file_content, DefaultMaxRows)
    /\ IF HasKey(excel_to_text_representation(file_content, DefaultMaxRows), "error")
       THEN /\ messages' = Append(messages, Message("error", 134))
            /\ pc' = "debug"
       ELSE /\ pc' = "llm_entry"
            /\ UNCHANGED messages
    /\ UNCHANGED <<file_content, basic_analysis, image_paths, prompt, llm_outcome,
                   llm_response, raised, analysis_result, api_calls, api_log, request,
                   capture_step, escaped>>

\* lines 139-172: the result, or the failure message for None
ShowResult ==
    /\ pc = "returned"
    /\ request # NotYet
    /\ messages' = Append(messages,
          IF analysis_result # None THEN Message("success", 140)
          ELSE Message("error", 172))
    /\ pc' = "debug"
    /\ UNCHANGED <<file_content, max_rows, basic_analysis, text_representations,
                   image_paths, prompt, llm_outcome, llm_response, raised,
                   analysis_result, api_calls, api_log, request, capture_step, escaped>>

\* lines 182-193: the debug view, outside any try, under a cap of 10 rows
DebugView ==
    /\ pc = "debug"
    /\ max_rows' = DebugMaxRows
    /\ text_representations' = excel_to_text_representation(file_content, DebugMaxRows)
    /\ pc' = "done"
    /\ UNCHANGED <<file_content, basic_analysis, image_paths, prompt, llm_outcome,
                   llm_response, raised, analysis_result, api_calls, api_log, request,
                   capture_step, messages, escaped>>

Next ==
    \/ BasicAnalysis
    \/ OpenResults
    \/ CaptureImages
    \/ SerializeForModel
    \/ BuildPrompt
    \/ CallModel
    \/ ParseResponse
    \/ ShowResult
    \/ DebugView

Spec == InitMain /\ [][Next]_vars


(***************************************************************************)
(* The reply parser/validator: what the caller of analyze_excel_with_llm   *)
(* gets for each reply.                                                    *)
(***************************************************************************)
Returned == pc = "returned"

Replied == "kind" \in DOMAIN llm_outcome /\ llm_outcome.kind = "reply"

IsTyped(result) == "sheets" \in DOMAIN result

\* the tag the caller can read off the returned value
OutcomeTag(result) ==
    IF IsTyped(result) THEN "ok"
    ELSE IF "error" \in DOMAIN result THEN result.error
    ELSE "none"

\* C6: a malformed reply comes back as a ParseError and a well-formed reply
\* that violates the schema as a ValidationError: tags the caller can read
\* off the returned value and tell apart, from each other and from the None
\* of a failed request, none of them a silent default.
C6_FailuresTaggedApart ==
    (Returned /\ Replied) =>
        /\ raised = "JSONDecodeError" => OutcomeTag(analysis_result) = "ParseError"
        /\ raised = "ValidationError" => OutcomeTag(analysis_result) = "ValidationError"

HasField(v, key) == HasKey(v.obj, key)

Field(v, key) == Get(v.obj, key)

\* a header_info object with a header_type outside the two literals, or
\* with only one of start_row and end_row
HeaderDefect(h) ==
    \/ (HasField(h, "header_type") /\ IsStr(Field(h, "header_type"))
            /\ Field(h, "header_type").str \notin {"single", "multi-level"})
    \/ (HasField(h, "start_row") /\ ~HasField(h, "end_row"))
    \/ (HasField(h, "end_row") /\ ~HasField(h, "start_row"))

\* a sheet object lacking a required field, with a sheet_type outside the
\* four literals, or with a defective header_info
SheetDefect(item) ==
    \/ ~HasField(item, "sheet_name")
    \/ ~HasField(item, "sheet_type")
    \/ ~HasField(item, "reasoning")
    \/ (IsStr(Field(item, "sheet_type"))
            /\ Field(item, "sheet_type").str \notin {"table", "form", "mixed", "unknown"})
    \/ (HasField(item, "header_info") /\ IsObj(Field(item, "header_info"))
            /\ HeaderDefect(Field(item, "header_info")))

ReplyDefect(body) ==
    /\ IsObj(body)
    /\ \/ ~HasField(body, "sheets")
       \/ /\ IsArr(Field(body, "sheets"))
          /\ \E i \in 1..Len(Field(body, "sheets").arr) :
                /\ IsObj(Field(body, "sheets").arr[i])
                /\ SheetDefect(Field(body, "sheets").arr[i])

\* C7: a reply in which some sheet_type is none of table/form/mixed/unknown,
\* some header_type is none of single/multi-level, a required field
\* (sheets, sheet_name, sheet_type, reasoning) is missing, or a header_info
\* has start_row without end_row or end_row without start_row, never
\* comes back as a typed output.
C7_DefectiveReplyRejected ==
    (Returned /\ Replied /\ ReplyDefect(llm_outcome.body)) =>
        /\ ~IsTyped(analysis_result)
        /\ analysis_result = None

\* a fenced reply, sound but for its sheet_type "unknown_type", was rejected
\* by validation
C7_Witness ==
    /\ Returned /\ Replied
    /\ llm_outcome.style = "json"
    /\ llm_outcome.body =
          SheetsObject(<<JsonSheet(JStr("Sheet1"), JStr("unknown_type"), GoodHeader,
                                   JStr("bold header row"))>>)
    /\ raised = "ValidationError"
    /\ analysis_result = None

HeadersOf(result) ==
    {result.sheets[i].header_info : i \in 1..Len(result.sheets)} \ {None}

\* C8: every HeaderInfo of a returned output has end_row >= start_row and
\* start_row >= 1, whatever the model replied.
C8_HeaderRowsOrdered ==
    (Returned /\ IsTyped(analysis_result)) =>
        \A h \in HeadersOf(analysis_result) :
            h.end_row >= h.start_row /\ h.start_row >= 1

\* C9: in a returned output a sheet has a HeaderInfo only when its
\* sheet_type is table or mixed; a form or unknown sheet has none.
C9_HeaderOnlyForTables ==
    (Returned /\ IsTyped(analysis_result)) =>
        \A i \in 1..Len(analysis_result.sheets) :
            analysis_result.sheets[i].header_info # None =>
                analysis_result.sheets[i].sheet_type \in {"table", "mixed"}

\* C10: when the reply is the serialized form of a typed output x, the
\* parser/validator succeeds and returns x: parse(serialize(x)) = x.
C10_RoundTrip ==
    (Returned /\ Replied /\ llm_outcome.dumped # None) =>
        /\ llm_response = [str |-> model_dump_json(llm_outcome.dumped)]
        /\ raised = "none"
        /\ analysis_result = llm_outcome.dumped

\* the serialized form of an output of two sheets, the first with a
\* HeaderInfo and the second without, came back as that output
C10_Witness ==
    /\ Returned /\ Replied
    /\ llm_outcome.dumped # None
    /\ Len(llm_outcome.dumped.sheets) = 2
    /\ llm_outcome.dumped.sheets[1].header_info # None
    /\ llm_outcome.dumped.sheets[2].header_info = None
    /\ analysis_result = llm_outcome.dumped


(***************************************************************************)
(* The run of app.main: capture, ordering, what reaches the page.          *)
(***************************************************************************)
Done == pc = "done"

Pressed == request.api_key # "" /\ request.pressed

\* a workbook whose serialization the analysis is entered with
Analysable(content) ==
    /\ content.parses
    /\ Len(content.sheets) > 0
    /\ \A i \in 1..Len(content.sheets) : content.sheets[i].title # "error"

\* the capture was attempted and failed at a step, or produced no image
CaptureFailed ==
    /\ request.use_image_capture
    /\ capture_step \in CaptureFaults \cup {"none"}
    /\ (capture_step = "none" => ~HasImages(image_paths))

Rendered(message) == \E i \in 1..Len(messages) : messages[i] = message

\* C11: when the capture fails at any step (temporary file, Xvfb,
\* LibreOffice conversion, missing PDF, no image from the PDF), the run
\* still analyses the workbook: no image is handed on, the one request made
\* is the text-only one, and the run renders no exception message.
C11_CaptureFailureDegrades ==
    (Done /\ Pressed /\ Analysable(file_content) /\ CaptureFailed) =>
        /\ ~HasImages(image_paths)
        /\ Len(api_log) = 1
        /\ api_log[1].fn = "call_openai_api"
        /\ ~Rendered(Message("error", 175))


(***************************************************************************)
(* One invocation of analyze_excel_with_llm: the requests it sends.        *)
(***************************************************************************)
\* C12: one invocation of analyze_excel_with_llm sends at most one request,
\* and once it has returned for a mapping that is not empty it has sent
\* exactly one, to the image callee when image paths were given and to the
\* text-only callee otherwise, whatever the call, the parsing or the
\* validation came to.
C12_AtMostOneCall ==
    /\ api_calls <= 1
    /\ Len(api_log) = api_calls
    /\ (Returned /\ Len(text_representations) > 0) =>
          /\ Len(api_log) = 1
          /\ api_log[1].fn = Callee(image_paths)
          /\ api_log[1].prompt = prompt

\* an invocation with an image whose reply failed validation: one request,
\* to the image callee
C12_Witness ==
    /\ Returned
    /\ raised = "ValidationError"
    /\ analysis_result = None
    /\ api_calls = 1
    /\ api_log[1].fn = "call_openai_api_with_images"


CallFailed == "kind" \in DOMAIN llm_outcome /\ llm_outcome.kind # "reply"

\* C13: whichever error the request raises (authentication, rate limit,
\* other API error, or any other exception), the callee returns None, and
\* analyze_excel_with_llm returns None without entering its own except
\* clauses: one outcome for every kind, and no exception to the caller.
C13_CallErrorsUniform ==
    /\ (pc \in {"llm_called", "returned"} /\ CallFailed) => llm_response = None
    /\ (Returned /\ CallFailed) =>
          /\ analysis_result = None
          /\ raised = "none"

\* a rate-limit error of the image callee came back as None
C13_Witness ==
    /\ Returned /\ CallFailed
    /\ llm_outcome.kind = "RateLimitError"
    /\ api_log[1].fn = "call_openai_api_with_images"
    /\ llm_response = None
    /\ analysis_result = None


\* C14: no exception raised in a step of the run (load, profiling,
\* serialization, capture, model call, parse/validate) leaves app.main:
\* each is caught and rendered as a message.
C14_NoErrorEscapes ==
    /\ escaped = "none"
    /\ pc # "crashed"


\* C15: a returned output holds one SheetAnalysisResult per sheet of the
\* input mapping: as many results as the mapping has sheets, and every
\* sheet name of the mapping is the sheet_name of a result.
C15_OneResultPerSheet ==
    (Returned /\ IsTyped(analysis_result)) =>
        /\ Len(analysis_result.sheets) = Len(text_representations)
        /\ \A k \in 1..Len(text_representations) :
              \E i \in 1..Len(analysis_result.sheets) :
                  analysis_result.sheets[i].sheet_name = text_representations[k][1]


(***************************************************************************)
(* The prompt of a request.                                                *)
(***************************************************************************)
PromptBuilt ==
    \/ pc \in {"llm_call", "llm_called"}
    \/ (Returned /\ Len(text_representations) > 0)

\* the delimiter of a sheet ("Sheet" stands for the Japanese word)
Delimiter(sheet_name) == "=== Sheet: " \o sheet_name \o " ==="

\* a sheet's text under its delimiter line
Embedded(item) == "\n" \o Delimiter(item[1]) \o "\n" \o item[2]

First(S) == CHOOSE i \in S : \A j \in S : i <= j

\* C16: the prompt holds, for every sheet of the mapping and in mapping
\* order, the delimiter line of the sheet followed at once by the sheet's
\* serialized text, each exactly once, and is the same prompt for the same
\* mapping.
C16_PromptEmbedsSheets ==
    PromptBuilt =>
        /\ prompt = create_analysis_prompt(CombinedText(text_representations))
        /\ \A k \in 1..Len(text_representations) :
              Cardinality(Occurrences(prompt, Embedded(text_representations[k]))) = 1
        /\ \A k \in 1..(Len(text_representations) - 1) :
              First(Occurrences(prompt, Embedded(text_representations[k])))
                  < First(Occurrences(prompt, Embedded(text_representations[k + 1])))


(***************************************************************************)
(* Fences around a reply.                                                  *)
(***************************************************************************)
\* what the parser gives for the body alone
Unfenced(body) == ParseAndValidate([str |-> Dumps(body)]).result

\* C17: a valid body gives the same typed output alone, in a fence without
\* a tag and in a fence with any language tag, the lowercase json or
\* another; and the stripping leaves a reply without a fence as it is.
C17_FenceStripping ==
    (Returned /\ Replied /\ llm_outcome.body # NotJson) =>
        /\ (IsTyped(Unfenced(llm_outcome.body))
                /\ llm_outcome.style \in {"plain", "bare", "json", "upper"})
              => analysis_result = Unfenced(llm_outcome.body)
        /\ llm_outcome.style = "plain"
              => CleanResponse(llm_outcome.content.str) = llm_outcome.content.str


(***************************************************************************)
(* The profile of a sheet and the callers' test for a load failure.        *)
(***************************************************************************)
\* the SheetProfile fields, under the names the code gives them
ProfileFields ==
    {"max_row", "max_column", "data_density", "non_empty_cells", "num_merged_cells",
     "has_excel_tables", "num_excel_tables"}

\* C18: the profile of every sheet of a loaded workbook carries every
\* SheetProfile field: the table flag is true exactly when the sheet has a
\* table, the table count is there in both cases (0 without a table), and
\* the merged count is the number of merge ranges.
C18_ProfileCarriesAllFields ==
    Analyzed =>
        \A sheet \in SheetsOf(file_content) :
            LET stats == Get(basic_analysis, sheet.title)
            IN  /\ \A field \in ProfileFields : HasKey(stats, field)
                /\ Get(stats, "has_excel_tables") = (sheet.tables > 0)
                /\ Get(stats, "num_excel_tables") = sheet.tables
                /\ Get(stats, "num_merged_cells") = Len(sheet.merged_ranges)


\* C19: a workbook that loads is never taken for a load failure by the
\* callers' test for the key "error": neither the basic analysis nor the
\* analysis run renders its load-failure message, whatever the sheets are
\* titled.
C19_LoadedNeverTakenForFailure ==
    (request # NotYet /\ file_content.parses) =>
        /\ ~Rendered(Message("error", 79))
        /\ ~Rendered(Message("error", 134))


\* the serialization the analysis run of app.main makes
Serialized == excel_to_text_representation(file_content, DefaultMaxRows)

\* C20: in a run the model is invoked only once the workbook has been
\* serialized with success: while the request is prepared and sent the
\* mapping is the serialization of the loaded workbook and is not empty,
\* the prompt sent is built from it, and a run whose workbook fails to load
\* or whose mapping is empty sends no request.
C20_CallAfterSerialization ==
    (request # NotYet /\ ~SheetReadRaises(file_content)) =>
        /\ pc \in {"llm_call", "llm_called"} =>
              /\ file_content.parses
              /\ text_representations = Serialized
              /\ Len(text_representations) > 0
        /\ api_calls > 0 =>
              /\ file_content.parses
              /\ Len(Serialized) > 0
              /\ api_log[1].prompt = create_analysis_prompt(CombinedText(Serialized))
        /\ (~file_content.parses \/ Len(Serialized) = 0) => api_calls = 0

\* a finished run, button pressed, on bytes that do not load: the load
\* failure was rendered and no request was sent
C20_Witness ==
    /\ Done /\ Pressed
    /\ ~file_content.parses
    /\ Rendered(Message("error", 134))
    /\ api_calls = 0
    /\ api_log = <<>>

=============================================================================
